---- MODULE Spec2Model ----
(***************************************************************************)
(* Server actions of the invoicing dashboard (app/lib/actions.ts):         *)
(* createInvoice, updateInvoice and deleteInvoice over the invoices table, *)
(* the route cache (revalidatePath) and the navigation signal (redirect).  *)
(*                                                                         *)
(* A JavaScript number is kept in fixed point: the integer n stands for    *)
(* n / Scale, so that amount * 100 is computed exactly on the decimal      *)
(* inputs of the model and a fractional number of cents stays visible.     *)
(***************************************************************************)
EXTENDS Integers, Sequences, FiniteSets, TLC

VARIABLES store, nextId, today, call, pre, result, log

vars == <<store, nextId, today, call, pre, result, log>>

-----------------------------------------------------------------------------
(* Bounds of the model *)

\* number of rows the store hands an id to
MaxIds == 2
\* last calendar day the clock reaches (days are 0 .. MaxDay)
MaxDay == 1

-----------------------------------------------------------------------------
(* Numbers and the form *)

\* fixed-point unit: a number x is held as x * Scale
Scale == 1000

\* amount * 100
CentsPerUnit == 100

InvoicesPath == "/dashboard/invoices"

Fields == {"customerId", "amount", "status"}

DigitChars == {"0", "1", "2", "3", "4", "5", "6", "7", "8", "9"}

DigitValue(c) ==
    CASE c = "0" -> 0 [] c = "1" -> 1 [] c = "2" -> 2 [] c = "3" -> 3
      [] c = "4" -> 4 [] c = "5" -> 5 [] c = "6" -> 6 [] c = "7" -> 7
      [] c = "8" -> 8 [] c = "9" -> 9

RECURSIVE Pow10(_)
Pow10(n) == IF n = 0 THEN 1 ELSE 10 * Pow10(n - 1)

\* value of a run of decimal digits
RECURSIVE DigitsValue(_)
DigitsValue(s) ==
    IF s = <<>> THEN 0
    ELSE 10 * DigitsValue(SubSeq(s, 1, Len(s) - 1)) + DigitValue(s[Len(s)])

AllDigits(s) == \A i \in 1..Len(s) : s[i] \in DigitChars

DotAt(s) == IF \E i \in 1..Len(s) : s[i] = "."
            THEN CHOOSE i \in 1..Len(s) : s[i] = "." /\ \A j \in 1..(i - 1) : s[j] # "."
            ELSE 0

\* Number(text) for an unsigned decimal literal; nan when it is not one
UnsignedToNumber(s) ==
    LET d    == DotAt(s)
        ip   == IF d = 0 THEN s ELSE SubSeq(s, 1, d - 1)
        fp   == IF d = 0 THEN <<>> ELSE SubSeq(s, d + 1, Len(s))
    IN  IF AllDigits(ip) /\ AllDigits(fp) /\ Len(ip) + Len(fp) > 0
             /\ Pow10(Len(fp)) <= Scale
        THEN [nan |-> FALSE,
              val |-> DigitsValue(ip) * Scale + DigitsValue(fp) * (Scale \div Pow10(Len(fp)))]
        ELSE [nan |-> TRUE, val |-> 0]

\* Number(text): the empty text is 0, a decimal literal its value, else NaN
StrToNumber(s) ==
    IF s = <<>> THEN [nan |-> FALSE, val |-> 0]
    ELSE IF s[1] = "-"
         THEN LET u == UnsignedToNumber(Tail(s))
              IN  [nan |-> u.nan, val |-> 0 - u.val]
         ELSE UnsignedToNumber(s)

\* formData.get(name) is null when the form has no such field
Has(fd, name) == name \in DOMAIN fd

\* z.coerce.number(): Number(formData.get('amount')), Number(null) = 0
CoerceAmount(fd) ==
    IF Has(fd, "amount") THEN StrToNumber(fd["amount"]) ELSE [nan |-> FALSE, val |-> 0]

MsgCustomer == "Please select a customer."
MsgAmount   == "Please enter an amount greater than $0."
MsgStatus   == "Please select an invoice status."
MsgNaN      == "Expected number, received nan"
MsgEnum(s)  == "Invalid enum value. Expected 'pending' | 'paid', received '" \o s \o "'"

StatusValues == {"pending", "paid"}

\* z.string({ invalid_type_error }) on formData.get('customerId')
CustomerIssues(fd) ==
    IF Has(fd, "customerId") THEN <<>> ELSE <<MsgCustomer>>

\* z.coerce.number().gt(0, { message })
AmountIssues(fd) ==
    LET n == CoerceAmount(fd)
    IN  IF n.nan THEN <<MsgNaN>>
        ELSE IF n.val > 0 THEN <<>> ELSE <<MsgAmount>>

\* StatusIssues with the message configured for an absent value only
\* (required_error in place of invalid_type_error): null gets the default
StatusIssues_RequiredOnly(fd) ==
    IF ~Has(fd, "status") THEN <<"Expected 'pending' | 'paid', received null">>
    ELSE IF fd["status"] \in StatusValues THEN <<>>
    ELSE <<MsgEnum(fd["status"])>>

\* z.enum(['pending', 'paid'], { invalid_type_error }): the configured message
\* answers a value that is no string; a string outside the enumeration gets
\* the library's invalid_enum_value message
StatusIssues(fd) ==
    IF ~Has(fd, "status") THEN <<MsgStatus>>
    ELSE IF fd["status"] \in StatusValues THEN <<>>
    ELSE <<MsgEnum(fd["status"])>>

Issues(fd) ==
    [f \in Fields |-> CASE f = "customerId" -> CustomerIssues(fd)
                        [] f = "amount"     -> AmountIssues(fd)
                        [] f = "status"     -> StatusIssues(fd)]

\* FieldErrors stopping at the first field with an issue
FieldErrors_FirstOnly(fd) ==
    LET bad == {f \in Fields : Issues(fd)[f] # <<>>}
        first == IF "customerId" \in bad THEN {"customerId"}
                 ELSE IF "amount" \in bad THEN {"amount"}
                 ELSE bad
    IN  [f \in first |-> Issues(fd)[f]]

\* error.flatten().fieldErrors: the fields with issues, each with its messages
FieldErrors(fd) ==
    LET bad == {f \in Fields : Issues(fd)[f] # <<>>}
    IN  [f \in bad |-> Issues(fd)[f]]

\* SafeParse with the amount coerced but not compared with 0 (no .gt(0))
SafeParse_NoAmountCheck(fd) ==
    IF CustomerIssues(fd) = <<>> /\ StatusIssues(fd) = <<>> /\ ~CoerceAmount(fd).nan
    THEN [success |-> TRUE,
          data |-> [customerId |-> fd["customerId"],
                    amount     |-> CoerceAmount(fd).val,
                    status     |-> fd["status"]]]
    ELSE [success |-> FALSE]

\* CreateInvoice.safeParse / UpdateInvoice.parse
SafeParse(fd) ==
    IF \A f \in Fields : Issues(fd)[f] = <<>>
    THEN [success |-> TRUE,
          data |-> [customerId |-> fd["customerId"],
                    amount     |-> CoerceAmount(fd).val,
                    status     |-> fd["status"]]]
    ELSE [success |-> FALSE]

\* const amountInCents = amount * 100
AmountInCents(amount) == amount * CentsPerUnit

-----------------------------------------------------------------------------
(* The invoices table *)

\* INSERT INTO invoices (customer_id, amount, status, date): the store gives the id
InsertRow(st, id, customerId, amount, status, date) ==
    st \cup {[id |-> id, customer_id |-> customerId, amount |-> amount,
              status |-> status, date |-> date]}

\* UPDATE without its WHERE clause
UpdateRows_NoWhere(st, id, customerId, amount, status) ==
    {[r EXCEPT !.customer_id = customerId, !.amount = amount, !.status = status] : r \in st}

\* UPDATE invoices SET ... WHERE id = ${id}
UpdateRows(st, id, customerId, amount, status) ==
    {IF r.id = id
     THEN [r EXCEPT !.customer_id = customerId, !.amount = amount, !.status = status]
     ELSE r : r \in st}

\* DELETE with <= in place of = in its WHERE clause
DeleteRows_UpTo(st, id) == {r \in st : r.id > id}

\* DELETE FROM invoices WHERE id = ${id}
DeleteRows(st, id) == {r \in st : r.id # id}

-----------------------------------------------------------------------------
(* Results of a call *)

Returned(v)   == [kind |-> "return", value |-> v]
Redirected(p) == [kind |-> "redirect", path |-> p]
Thrown(e)     == [kind |-> "throw", error |-> e]
NoResult      == [kind |-> "none"]

\* outcome of a handler: the table, the id counter, the result and the
\* collaborator calls in the order they were made
Outcome(st, nid, res, lg) == [store |-> st, nextId |-> nid, result |-> res, log |-> lg]

\* createInvoice with revalidatePath and redirect moved into the try block:
\* the signal redirect throws is caught with the store errors
CreateInvoiceRun_RedirectInTry(fd, sqlOk, revalOk, st, nid, day) ==
    LET validatedFields == SafeParse(fd)
    IN  IF ~validatedFields.success
        THEN Outcome(st, nid,
                     Returned([errors  |-> FieldErrors(fd),
                               message |-> "Missing Fields. Failed to Create Invoice."]),
                     <<>>)
        ELSE LET d == validatedFields.data
                 amountInCents == AmountInCents(d.amount)
                 inserted == InsertRow(st, nid, d.customerId, amountInCents, d.status, day)
                 failed == Returned([message |-> "Database Error: Failed to Create Invoice. "])
             IN  IF ~sqlOk
                 THEN Outcome(st, nid, failed, <<"sql_error">>)
                 ELSE IF ~revalOk
                 THEN Outcome(inserted, nid + 1, failed, <<"sql_ok", "revalidate_error">>)
                 ELSE Outcome(inserted, nid + 1, failed,
                              <<"sql_ok", "revalidatePath", "redirect">>)

\* createInvoice: safeParse, early return of the errors, INSERT inside
\* try/catch, then revalidatePath and redirect after it
CreateInvoiceRun(fd, sqlOk, revalOk, st, nid, day) ==
    LET validatedFields == SafeParse(fd)
    IN  IF ~validatedFields.success
        THEN Outcome(st, nid,
                     Returned([errors  |-> FieldErrors(fd),
                               message |-> "Missing Fields. Failed to Create Invoice."]),
                     <<>>)
        ELSE LET d == validatedFields.data
                 amountInCents == AmountInCents(d.amount)
                 inserted == InsertRow(st, nid, d.customerId, amountInCents, d.status, day)
             IN  IF ~sqlOk
                 THEN Outcome(st, nid,
                              Returned([message |-> "Database Error: Failed to Create Invoice. "]),
                              <<"sql_error">>)
                 ELSE IF ~revalOk
                 THEN Outcome(inserted, nid + 1, Thrown("RevalidateError"),
                              <<"sql_ok", "revalidate_error">>)
                 ELSE Outcome(inserted, nid + 1, Redirected(InvoicesPath),
                              <<"sql_ok", "revalidatePath", "redirect">>)

\* updateInvoice: parse (throws on invalid data), UPDATE inside try/catch,
\* then revalidatePath and redirect after it
UpdateInvoiceRun(id, fd, sqlOk, revalOk, st, nid) ==
    LET parsed == SafeParse(fd)
    IN  IF ~parsed.success
        THEN Outcome(st, nid, Thrown("ZodError"), <<>>)
        ELSE LET d == parsed.data
                 amountInCents == AmountInCents(d.amount)
                 updated == UpdateRows(st, id, d.customerId, amountInCents, d.status)
             IN  IF ~sqlOk
                 THEN Outcome(st, nid,
                              Returned([message |-> "Database Error: Failed to Update Invoice."]),
                              <<"sql_error">>)
                 ELSE IF ~revalOk
                 THEN Outcome(updated, nid, Thrown("RevalidateError"),
                              <<"sql_ok", "revalidate_error">>)
                 ELSE Outcome(updated, nid, Redirected(InvoicesPath),
                              <<"sql_ok", "revalidatePath", "redirect">>)

\* deleteInvoice: DELETE, revalidatePath and the return all inside the try
\* block, so that a throw of either collaborator reaches the catch
DeleteInvoiceRun(id, sqlOk, revalOk, st, nid) ==
    IF ~sqlOk
    THEN Outcome(st, nid,
                 Returned([message |-> "Database Error: Failed to Delete Invoice."]),
                 <<"sql_error">>)
    ELSE IF ~revalOk
    THEN Outcome(DeleteRows(st, id), nid,
                 Returned([message |-> "Database Error: Failed to Delete Invoice."]),
                 <<"sql_ok", "revalidate_error">>)
    ELSE Outcome(DeleteRows(st, id), nid,
                 Returned([message |-> "Deleted Invoice."]),
                 <<"sql_ok", "revalidatePath">>)

-----------------------------------------------------------------------------
(* Inputs *)

\* forms that pass validation
ValidForms ==
    {[customerId |-> "c1", amount |-> <<"1", "0">>, status |-> "pending"],
     [customerId |-> "c2", amount |-> <<"0", ".", "0", "0", "1">>, status |-> "paid"],
     [customerId |-> "c2", amount |-> <<"2", ".", "5">>, status |-> "pending"]}

\* texts that fail validation: an empty amount, one that is no number, a
\* negative one; a status outside the enumeration
BadAmounts  == {<<>>, <<"a", "b", "c">>, <<"-", "5">>}
BadStatuses == {"draft"}

\* a submitted form is a valid one with any of its fields left as it is,
\* replaced by a failing text, or absent
Variants(v) ==
    [customerId : {v.customerId},
     amount     : {v.amount} \cup BadAmounts,
     status     : {v.status} \cup BadStatuses]

FormDatas ==
    {[f \in S |-> full[f]] : full \in UNION {Variants(v) : v \in ValidForms},
                             S \in SUBSET Fields}

Ids == 1..MaxIds

-----------------------------------------------------------------------------
(* Actions *)

Init ==
    /\ store = {}
    /\ nextId = 1
    /\ today = 0
    /\ call = [op |-> "none"]
    /\ pre = {}
    /\ result = NoResult
    /\ log = <<>>

\* what the call saw of the store and of the route cache: a collaborator the
\* handler never reached is "none"
SqlSeen(reached, sqlOk) ==
    IF ~reached THEN "none" ELSE IF sqlOk THEN "ok" ELSE "error"

RevalSeen(reached, sqlOk, revalOk) ==
    IF ~reached \/ ~sqlOk THEN "none" ELSE IF revalOk THEN "ok" ELSE "error"

Idle == call.op = "none"

Apply(c, out) ==
    /\ Idle
    /\ call' = c
    /\ pre' = store
    /\ store' = out.store
    /\ nextId' = out.nextId
    /\ result' = out.result
    /\ log' = out.log
    /\ UNCHANGED today

createInvoice(fd, sqlOk, revalOk) ==
    /\ nextId <= MaxIds
    /\ Apply([op |-> "create", form |-> fd, day |-> today,
              sql   |-> SqlSeen(SafeParse(fd).success, sqlOk),
              reval |-> RevalSeen(SafeParse(fd).success, sqlOk, revalOk)],
             CreateInvoiceRun(fd, sqlOk, revalOk, store, nextId, today))

updateInvoice(id, fd, sqlOk, revalOk) ==
    /\ id \in Ids
    /\ Apply([op |-> "update", id |-> id, form |-> fd,
              sql   |-> SqlSeen(SafeParse(fd).success, sqlOk),
              reval |-> RevalSeen(SafeParse(fd).success, sqlOk, revalOk)],
             UpdateInvoiceRun(id, fd, sqlOk, revalOk, store, nextId))

deleteInvoice(id, sqlOk, revalOk) ==
    /\ id \in Ids
    /\ Apply([op |-> "delete", id |-> id,
              sql   |-> SqlSeen(TRUE, sqlOk),
              reval |-> RevalSeen(TRUE, sqlOk, revalOk)],
             DeleteInvoiceRun(id, sqlOk, revalOk, store, nextId))

\* the result reaches the caller and the request ends: nothing of a call
\* but the table outlives it
Respond ==
    /\ ~Idle
    /\ call' = [op |-> "none"]
    /\ pre' = {}
    /\ result' = NoResult
    /\ log' = <<>>
    /\ UNCHANGED <<store, nextId, today>>

\* new Date() moves on between calls
Tick ==
    /\ Idle
    /\ today < MaxDay
    /\ today' = today + 1
    /\ UNCHANGED <<store, nextId, call, pre, result, log>>

Next ==
    \/ \E fd \in FormDatas, sqlOk \in BOOLEAN, revalOk \in BOOLEAN :
           createInvoice(fd, sqlOk, revalOk)
    \/ \E id \in Ids, fd \in FormDatas, sqlOk \in BOOLEAN, revalOk \in BOOLEAN :
           updateInvoice(id, fd, sqlOk, revalOk)
    \/ \E id \in Ids, sqlOk \in BOOLEAN, revalOk \in BOOLEAN :
           deleteInvoice(id, sqlOk, revalOk)
    \/ Respond
    \/ Tick

Spec == Init /\ [][Next]_vars

-----------------------------------------------------------------------------
(* Vocabulary of the properties *)

Range(f) == {f[x] : x \in DOMAIN f}

\* Math.round on a fixed-point number (half rounds up)
Round(x) == ((x + Scale \div 2) \div Scale) * Scale

IsWholeNumber(x) == x % Scale = 0

\* the input as the caller sees it: which fields break which rule
CustomerMissing(fd) == ~Has(fd, "customerId")
AmountNotPositive(fd) == ~CoerceAmount(fd).nan /\ CoerceAmount(fd).val <= 0
AmountViolated(fd) == CoerceAmount(fd).nan \/ CoerceAmount(fd).val <= 0
StatusMissing(fd) == ~Has(fd, "status")
StatusOtherText(fd) == Has(fd, "status") /\ fd["status"] \notin {"pending", "paid"}
StatusViolated(fd) == StatusMissing(fd) \/ StatusOtherText(fd)

ViolatedFields(fd) ==
    (IF CustomerMissing(fd) THEN {"customerId"} ELSE {})
      \cup (IF AmountViolated(fd) THEN {"amount"} ELSE {})
      \cup (IF StatusViolated(fd) THEN {"status"} ELSE {})

InputValid(fd) == ViolatedFields(fd) = {}

HasForm == call.op \in {"create", "update"}

\* the amount of the form, times 100
SubmittedCents(fd) == CoerceAmount(fd).val * 100

RowsWithId(st, id) == {r \in st : r.id = id}

\* e comes before f in the log
Before(e, f) ==
    \E i, j \in 1..Len(log) : i < j /\ log[i] = e /\ log[j] = f

ErrorsOfResult == result.value.errors

-----------------------------------------------------------------------------
(* Properties *)

\* C1: a valid createInvoice whose INSERT the store accepts adds exactly one
\* row, with the submitted customer and status, the amount round(amount * 100)
\* and the date of the call, and then signals a redirect to /dashboard/invoices
\* (when the invalidation before it returns).
C1_CreatePersistsRoundedRow ==
    (call.op = "create" /\ InputValid(call.form) /\ call.sql = "ok") =>
        /\ \E r \in store :
              /\ r \notin pre
              /\ store = pre \cup {r}
              /\ r.customer_id = call.form["customerId"]
              /\ r.status = call.form["status"]
              /\ r.amount = Round(SubmittedCents(call.form))
              /\ r.date = call.day
        /\ (call.reval = "ok" => result = Redirected(InvoicesPath))

\* C2: in createInvoice and updateInvoice a redirect is signalled only to
\* /dashboard/invoices, only after the store accepted the write and the route
\* was invalidated, in that order and as the last thing the call does; a
\* redirect that was called is the result of the call (it is never caught and
\* turned into a returned message); a call whose write failed neither
\* invalidates nor redirects.
C2_RedirectOrdering ==
    HasForm =>
        /\ (result.kind = "redirect" =>
              /\ result.path = InvoicesPath
              /\ call.sql = "ok"
              /\ Before("sql_ok", "revalidatePath")
              /\ Before("revalidatePath", "redirect")
              /\ log[Len(log)] = "redirect")
        /\ ("redirect" \in Range(log) => result.kind = "redirect")
        /\ (call.sql = "error" =>
              /\ "redirect" \notin Range(log)
              /\ "revalidatePath" \notin Range(log)
              /\ result.kind # "redirect")

C2_Witness ==
    /\ call.op = "update"
    /\ result.kind = "redirect"
    /\ RowsWithId(pre, call.id) # {}
    /\ store # pre

\* C3: a form that fails validation causes no store write, no invalidation
\* and no redirect: createInvoice returns its errors result, updateInvoice
\* throws the validation fault, and the table is as it was.
C3_InvalidFormTouchesNothing ==
    (HasForm /\ ~InputValid(call.form)) =>
        /\ store = pre
        /\ log = <<>>
        /\ call.sql = "none"
        /\ result.kind # "redirect"
        /\ (call.op = "create" =>
              /\ result.kind = "return"
              /\ DOMAIN result.value = {"errors", "message"})
        /\ (call.op = "update" => result = Thrown("ZodError"))

C3_Witness ==
    /\ call.op = "update"
    /\ ~InputValid(call.form)
    /\ AmountNotPositive(call.form)
    /\ RowsWithId(pre, call.id) # {}
    /\ result = Thrown("ZodError")

\* C4: when the store rejects the statement each operation returns exactly
\* its fixed "Database Error: Failed to ... Invoice." message and the table
\* is as it was before the call.
C4_StoreFailureMessages ==
    (call.op # "none" /\ call.sql = "error") =>
        /\ store = pre
        /\ (call.op = "create" =>
              result = Returned([message |-> "Database Error: Failed to Create Invoice."]))
        /\ (call.op = "update" =>
              result = Returned([message |-> "Database Error: Failed to Update Invoice."]))
        /\ (call.op = "delete" =>
              result = Returned([message |-> "Database Error: Failed to Delete Invoice."]))

\* C5: when createInvoice fails validation, the errors mapping has an entry
\* for exactly the violated fields (all of them at once), the amount entry
\* holds "Please enter an amount greater than $0." when amount <= 0, the
\* customerId entry holds "Please select a customer." when it is missing, and
\* the message is "Missing Fields. Failed to Create Invoice.".
C5_AllViolatedFieldsReported ==
    (call.op = "create" /\ ~InputValid(call.form)) =>
        /\ result.kind = "return"
        /\ result.value.message = "Missing Fields. Failed to Create Invoice."
        /\ DOMAIN ErrorsOfResult = ViolatedFields(call.form)
        /\ \A f \in DOMAIN ErrorsOfResult : ErrorsOfResult[f] # <<>>
        /\ (AmountNotPositive(call.form) =>
              "Please enter an amount greater than $0." \in Range(ErrorsOfResult["amount"]))
        /\ (CustomerMissing(call.form) =>
              "Please select a customer." \in Range(ErrorsOfResult["customerId"]))

C5_Witness ==
    /\ call.op = "create"
    /\ ViolatedFields(call.form) = Fields
    /\ result.kind = "return"
    /\ DOMAIN ErrorsOfResult = Fields

\* C6 as stated: for every createInvoice input whose status is missing or is
\* any text other than 'pending' and 'paid', errors.status contains
\* "Please select an invoice status.".
C6_EveryBadStatusGetsTheMessage ==
    (call.op = "create" /\ StatusViolated(call.form)) =>
        /\ result.kind = "return"
        /\ "status" \in DOMAIN ErrorsOfResult
        /\ "Please select an invoice status." \in Range(ErrorsOfResult["status"])

\* C6 amended: for every createInvoice input whose status is missing,
\* errors.status contains "Please select an invoice status."; for a status
\* that is a text other than 'pending' and 'paid', errors.status is present
\* and holds the validator's own invalid-enum-value message instead.
C6_MissingStatusGetsTheMessage ==
    /\ (call.op = "create" /\ StatusMissing(call.form)) =>
          /\ result.kind = "return"
          /\ "status" \in DOMAIN ErrorsOfResult
          /\ "Please select an invoice status." \in Range(ErrorsOfResult["status"])
    /\ (call.op = "create" /\ StatusOtherText(call.form)) =>
          /\ result.kind = "return"
          /\ "status" \in DOMAIN ErrorsOfResult
          /\ ErrorsOfResult["status"] # <<>>
          /\ "Please select an invoice status." \notin Range(ErrorsOfResult["status"])

C6_Witness ==
    /\ call.op = "create"
    /\ StatusMissing(call.form)
    /\ ~CustomerMissing(call.form)
    /\ ~AmountViolated(call.form)
    /\ result.kind = "return"
    /\ ErrorsOfResult = [status |-> <<"Please select an invoice status.">>]

\* C7: a valid updateInvoice whose UPDATE the store accepts changes only the
\* row with the given id: its customer_id, amount (the submitted amount times
\* 100) and status are the submitted ones, its id and date are kept, every
\* other row and the number of rows are unchanged (also when no row has the
\* id), and the call then invalidates /dashboard/invoices and redirects to it
\* (when the invalidation returns).
C7_UpdateChangesOnlyThatRow ==
    (call.op = "update" /\ InputValid(call.form) /\ call.sql = "ok") =>
        /\ Cardinality(store) = Cardinality(pre)
        /\ \A r \in pre : r.id # call.id => r \in store
        /\ \A r \in pre : r.id = call.id =>
              [id          |-> r.id,
               customer_id |-> call.form["customerId"],
               amount      |-> SubmittedCents(call.form),
               status      |-> call.form["status"],
               date        |-> r.date] \in store
        /\ (RowsWithId(pre, call.id) = {} => store = pre)
        /\ (call.reval = "ok" =>
              /\ result = Redirected(InvoicesPath)
              /\ Before("revalidatePath", "redirect"))

C7_Witness ==
    /\ call.op = "update"
    /\ InputValid(call.form)
    /\ call.sql = "ok"
    /\ call.reval = "ok"
    /\ Cardinality(pre) = 2
    /\ \E r \in pre :
          /\ r.id = call.id
          /\ r.customer_id # call.form["customerId"]
          /\ r.amount # SubmittedCents(call.form)
          /\ r.status # call.form["status"]
          /\ r.date # today
    /\ result = Redirected(InvoicesPath)

\* C8: a deleteInvoice whose DELETE the store accepts removes exactly the row
\* with the given id and leaves every other row as it was; it never signals a
\* redirect; when the invalidation returns, the route was invalidated and the
\* result is { message: "Deleted Invoice." }; when no row has the id (a second
\* call with the same id) the table is left as it was.
C8_DeleteRemovesOnlyThatRow ==
    call.op = "delete" =>
        /\ result.kind # "redirect"
        /\ "redirect" \notin Range(log)
        /\ (call.sql = "ok" =>
              /\ store = pre \ RowsWithId(pre, call.id)
              /\ (RowsWithId(pre, call.id) = {} => store = pre)
              /\ (call.reval = "ok" =>
                    /\ "revalidatePath" \in Range(log)
                    /\ result = Returned([message |-> "Deleted Invoice."])))

C8_Witness ==
    /\ call.op = "delete"
    /\ call.sql = "ok"
    /\ call.reval = "ok"
    /\ Cardinality(pre) = 2
    /\ call.id = 1
    /\ RowsWithId(pre, call.id) # {}
    /\ Cardinality(store) = 1
    /\ result = Returned([message |-> "Deleted Invoice."])

\* C9: every row of the table has an amount that is a non-negative whole
\* number of cents, whatever calls were made.
C9_AmountsAreWholeCents ==
    \A r \in store : r.amount >= 0 /\ IsWholeNumber(r.amount)

\* C10: deleteInvoice of an existing row returns "Database Error: Failed to
\* Delete Invoice." only when the DELETE itself failed and the row is still in
\* the table; no call that removed the row tells the caller that the delete
\* failed, also when the invalidation after the DELETE fails.
C10_DeleteFailureMeansRowKept ==
    (call.op = "delete"
       /\ RowsWithId(pre, call.id) # {}
       /\ result = Returned([message |-> "Database Error: Failed to Delete Invoice."])) =>
        /\ call.sql = "error"
        /\ RowsWithId(store, call.id) = RowsWithId(pre, call.id)

====
